---- MODULE Spec2Model ----
(***************************************************************************)
(* Neural cellular automata (pytorch_ca): the three training loops         *)
(* (models/CAModel.py CAModel.train_CA, neural_CA.py TrainCA.train_CA,     *)
(* perturbation_CA.py PerturbationCA.train_CA), statement by statement.    *)
(*                                                                         *)
(* Tensors are abstracted to tokens that record where a value came from    *)
(* (the batch that sampled it, the number of update steps applied, whether *)
(* it was damaged).  Losses are integers in hundredths (0.25 is 25, 5 is   *)
(* 500); NaN is a value of its own.  An exception ends the call: pc goes   *)
(* to "raised" and raised names the exception.                             *)
(***************************************************************************)
EXTENDS Integers, Sequences, FiniteSets, TLC

VARIABLES
  cfg,            \* the arguments of the train_CA call (and which train_CA)
  pc,             \* position in the running call
  epoch,          \* index of the epoch loop (epoch / i in the sources)
  j,              \* index of the batch loop
  n_step,         \* index of the evolution loop (n_step / k)
  iters,          \* length of the evolution loop of the current batch
  inputs,         \* local variable inputs
  indexes,        \* local variable indexes
  idx_max_loss,   \* local variable idx_max_loss
  log_loss,       \* local variable log_loss (CAModel.train_CA only)
  total_loss,     \* local variable total_loss (CAModel.train_CA only)
  epoch_losses,   \* local list epoch_losses
  losses,         \* self.losses
  trace,          \* the calls made so far in the current batch, in order
  updates,        \* the argument lists of the pool.update calls of the current batch
  counts,         \* calls made so far in the whole run, per collaborator method
  raised,         \* "none", or the exception that ended the call
  stopped,        \* TRUE once a stopping criterion has left the epoch loop
  drawn,          \* what np.random.uniform() returned in the current batch
  \* construction and persistence of rules
  base_device,    \* base_CA.device
  new_device,     \* new_CA.device
  composed,       \* the PerturbationCA object, once constructed
  params,         \* the rule's current parameters (its state_dict), as a version
  fs,             \* the file system: what is stored at each path
  call,           \* the last call made and how it ended
  \* one call of NeuralCA.forward
  f_pc,           \* "call" before the call, "returned" after it
  f_in,           \* the value of x when forward is called
  f_x,            \* the caller's tensor x (forward updates it in place)
  f_dx,           \* the update compute_dx returned
  f_ret,          \* the tensor forward returned
  \* one call of CAModel.test_CA
  t_args,         \* eval_samples (images.size()[0]), batch_size, evolution_iters
  t_pc,
  t_i,            \* offset of the current batch
  t_j,            \* evolution step within the batch
  t_n,            \* local variable n
  evolution_losses, \* the running means, one fraction per step index
  t_sum,          \* per step index: sum over batches of (images in batch) * loss
  t_images,       \* images folded in so far
  \* one call of PerturbationCA.forward
  p_args,         \* the class of new_CA, and whether its weights are zeroed
  p_pc,
  p_in,           \* the value of x when forward is called
  p_x,            \* the caller's tensor x (forward updates it in place)
  p_pre,          \* pre_life_mask
  p_dx_new,       \* dx_new
  p_dx_old,       \* dx_old
  p_ret,          \* the tensor forward returned
  new_cells,      \* self.new_cells
  p_raised,       \* "none", or the exception that ended the call
  \* one call of evolve
  e_args,         \* whose evolve, iters, and what the rule's layers yield
  e_pc,
  e_in,           \* the value of x when evolve is called
  e_x,            \* local variable x
  e_i,            \* index of the loop
  e_hist,         \* the updates compute_dx returned, one per forward call
  e_calls,        \* the calls evolve made, in order
  e_ret,          \* the tensor evolve returned
  e_raised        \* "none", or the exception that ended the call

trainVars == <<cfg, pc, epoch, j, n_step, iters, inputs, indexes, idx_max_loss,
               log_loss, total_loss, epoch_losses, losses, trace, updates,
               counts, raised, stopped, drawn>>

ruleVars == <<base_device, new_device, composed, params, fs, call>>
stepVars == <<f_pc, f_in, f_x, f_dx, f_ret>>
testVars == <<t_args, t_pc, t_i, t_j, t_n, evolution_losses, t_sum, t_images>>

composedVars == <<p_args, p_pc, p_in, p_x, p_pre, p_dx_new, p_dx_old, p_ret,
                  new_cells, p_raised>>
evolveVars == <<e_args, e_pc, e_in, e_x, e_i, e_hist, e_calls, e_ret, e_raised>>

notTrain == <<ruleVars, stepVars, testVars, composedVars, evolveVars>>
notRule == <<trainVars, stepVars, testVars, composedVars, evolveVars>>
notStep == <<trainVars, ruleVars, testVars, composedVars, evolveVars>>
notTest == <<trainVars, ruleVars, stepVars, composedVars, evolveVars>>
notComposed == <<trainVars, ruleVars, stepVars, testVars, evolveVars>>
notEvolve == <<trainVars, ruleVars, stepVars, testVars, composedVars>>

vars == <<trainVars, ruleVars, stepVars, testVars, composedVars, evolveVars>>

----------------------------------------------------------------------------
(* Bounds of the model *)

MaxEpochs == 4
MaxPoolSize == 3
MaxBatchSize == 2
MaxSkip == 2
MaxIters == 2
MaxDeviations == 2

(* Program constants, in hundredths where they are losses *)

StopLoss == 500
CheckpointLoss == 25
CheckpointEpoch == 40
WarmupEpochs == 2

----------------------------------------------------------------------------
(* Values *)

Unbound == [what |-> "unbound"]
None == [what |-> "None"]

(* the class of a rule handed to PerturbationCA as new_CA: NeuralCA, or a   *)
(* rule class that has a get_living_mask method                            *)
RuleClasses == {"NeuralCA", "masked"}

(* np.random.uniform() returns a value of [0, 1), here in hundredths *)
DrawVals == {0, 25, 75}
NoDraw == -1

NaNLoss == [nan |-> TRUE, v |-> 0]
Loss(v) == [nan |-> FALSE, v |-> v]
LowLoss == Loss(10)      \* 0.10: below every threshold
MidLoss == Loss(100)     \* 1.00: above the checkpoint threshold only
HighLoss == Loss(600)    \* 6.00: above the stopping threshold

RECURSIVE SumLosses(_)
SumLosses(s) == IF s = <<>> THEN 0 ELSE Head(s).v + SumLosses(Tail(s))

(* np.mean of a Python list of floats: NaN for the empty list and for a     *)
(* list holding a NaN, the sum over the length otherwise (kept as a         *)
(* fraction num/den).                                                       *)
NpMean(s) ==
  IF s = <<>> \/ \E k \in 1..Len(s) : s[k].nan
  THEN [nan |-> TRUE, num |-> 0, den |-> 1]
  ELSE [nan |-> FALSE, num |-> SumLosses(s), den |-> Len(s)]

IsNaN(m) == m.nan
(* m > t for a mean m and a threshold t in hundredths; any comparison with  *)
(* NaN is false                                                             *)
Exceeds(m, t) == ~m.nan /\ m.num > t * m.den

----------------------------------------------------------------------------
(* The calls the model explores: for every train_CA and every kind, all    *)
(* argument lists that differ from BaseCfg in at most MaxDeviations other  *)
(* arguments, and the long runs that reach the checkpoint epoch.           *)

CfgDom ==
  [ impl |-> {"CAModel", "TrainCA", "PerturbationCA"},
    kind |-> {"growing", "persistent", "regenerating", "other"},
    n_epochs |-> 0..MaxEpochs,
    pool_size |-> 0..MaxPoolSize,
    batch_size |-> 1..MaxBatchSize,
    skip_update |-> 1..MaxSkip,
    evolution_iters |-> 0..MaxIters,   \* the int, or the upper end of the tuple
    iters_min |-> 0..MaxIters,         \* the lower end of the tuple
    log_step |-> 0..MaxIters,          \* criterion.log_step
    scheduler |-> BOOLEAN,             \* scheduler is not None
    kwargs |-> SUBSET {"skip_damage", "reset_prob"},   \* keys of **kwargs
    reset_prob |-> {0, 50, 100},       \* kwargs["reset_prob"], when present
    skip_damage |-> 1..MaxSkip,        \* kwargs["skip_damage"], when present
    normalize_gradients |-> BOOLEAN,
    bad_epoch |-> -1..(MaxEpochs - 1), \* the epoch whose losses are bad_val
    bad_val |-> {NaNLoss, HighLoss},
    base_val |-> {LowLoss, MidLoss},   \* the loss of every other epoch
    prior |-> BOOLEAN,                 \* self.losses holds an entry of an earlier call
    new_class |-> RuleClasses ]        \* class of self.new_CA (PerturbationCA only)

BaseCfg ==
  [ impl |-> "CAModel", kind |-> "persistent", n_epochs |-> 1,
    pool_size |-> 1, batch_size |-> 1, skip_update |-> 2,
    evolution_iters |-> 1, iters_min |-> 1, log_step |-> 0,
    scheduler |-> FALSE, kwargs |-> {}, reset_prob |-> 50, skip_damage |-> 1,
    normalize_gradients |-> FALSE, bad_epoch |-> -1, bad_val |-> HighLoss,
    base_val |-> LowLoss, prior |-> FALSE, new_class |-> "NeuralCA" ]

FreeArgs == {"impl", "kind", "new_class"}

RECURSIVE Ball(_, _)
Ball(fields, k) ==
  IF fields = {} THEN {<<>>}
  ELSE LET f == CHOOSE g \in fields : TRUE
           rest == fields \ {f}
       IN {(f :> BaseCfg[f]) @@ r : r \in Ball(rest, k)}
          \cup (IF k = 0 \/ f \in FreeArgs THEN {}
                ELSE {(f :> v) @@ r : v \in CfgDom[f] \ {BaseCfg[f]},
                                      r \in Ball(rest, k - 1)})

(* randint(lo, hi) needs lo <= hi; TrainCA forwards **kwargs to            *)
(* make_squares, so it is called without the options only CAModel reads.   *)
CallableCfg(c) ==
  /\ c.impl # "CAModel" => c.iters_min <= c.evolution_iters
  /\ c.impl = "TrainCA" => c.kwargs = {}
  /\ c.impl # "PerturbationCA" => c.new_class = "NeuralCA"

LongCfgs ==
  {[BaseCfg EXCEPT !.n_epochs = CheckpointEpoch + 1, !.base_val = b, !.kind = k] :
      b \in CfgDom.base_val, k \in {"growing", "persistent"}}

Cfgs ==
  {c \in {[b EXCEPT !.impl = im, !.kind = k, !.new_class = nc] :
             b \in Ball(DOMAIN BaseCfg, MaxDeviations) ,
             im \in CfgDom.impl, k \in CfgDom.kind,
             nc \in CfgDom.new_class} : CallableCfg(c)}
  \cup LongCfgs

----------------------------------------------------------------------------
(* Collaborators the loops consume: the sample pool, the criterion.        *)

ThisBatch == <<epoch, j>>

(* pool.sample(batch_size) -> (states, identifiers)                        *)
PoolSampleStates == [what |-> "states", batch |-> ThisBatch, steps |-> 0, damaged |-> FALSE]
PoolSampleIds == [what |-> "ids", batch |-> ThisBatch]

(* the loss the criterion reports in epoch e *)
LossAt(e) == IF e = cfg.bad_epoch THEN cfg.bad_val ELSE cfg.base_val

(* make_squares(inputs): the damaged batch *)
MakeSquares(x) == [x EXCEPT !.damaged = TRUE]

(* n_largest_indexes(log_loss, n_max_losses): batch positions of the worst *)
(* samples by the given per-sample losses                                  *)
NLargestIndexes(ll) == [what |-> "worst", batch |-> ll.batch, by |-> "log_loss"]

Count(n) == [counts EXCEPT ![n] = @ + 1]
Did(op) == Append(trace, op)

Raise(e) ==
  /\ pc' = "raised"
  /\ raised' = e
  /\ UNCHANGED <<notTrain, drawn, cfg, epoch, j, n_step, iters, inputs, indexes, idx_max_loss,
                 log_loss, total_loss, epoch_losses, losses, trace, updates,
                 counts, stopped>>

TrainStart(cs, at) ==
  /\ cfg \in cs
  /\ pc = at
  /\ epoch = 0 /\ j = 0 /\ n_step = 0 /\ iters = 0
  /\ inputs = Unbound /\ indexes = Unbound
  /\ idx_max_loss = Unbound /\ log_loss = Unbound /\ total_loss = Unbound
  /\ epoch_losses = <<>>
  /\ losses = IF cfg.prior THEN <<NpMean(<<LowLoss>>)>> ELSE <<>>
  /\ trace = <<>> /\ updates = <<>>
  /\ counts = [sample |-> 0, opt_step |-> 0, update |-> 0, reset |-> 0,
               draw |-> 0, sched |-> 0, log |-> 0]
  /\ raised = "none"
  /\ stopped = FALSE
  /\ drawn = NoDraw

(* the states of the parts a specification leaves alone *)
TrainIdle == TrainStart({BaseCfg}, "idle")

----------------------------------------------------------------------------
(* models/CAModel.py, CAModel.train_CA                                     *)

IsCA == cfg.impl = "CAModel"

(* for epoch in range(n_epochs): epoch_losses = [] *)
CA_EpochHead ==
  /\ IsCA /\ pc = "epoch_head"
  /\ IF epoch < cfg.n_epochs
     THEN /\ epoch_losses' = <<>>
          /\ j' = 0
          /\ pc' = "batch_head"
     ELSE /\ pc' = "done"
          /\ UNCHANGED <<epoch_losses, j>>
  /\ UNCHANGED <<notTrain, drawn, cfg, epoch, n_step, iters, inputs, indexes, idx_max_loss,
                 log_loss, total_loss, losses, trace, updates, counts, raised,
                 stopped>>

(* for j in range(pool.size // batch_size) *)
CA_BatchHead ==
  /\ IsCA /\ pc = "batch_head"
  /\ pc' = IF j < cfg.pool_size \div cfg.batch_size THEN "sample" ELSE "sched"
  /\ UNCHANGED <<notTrain, drawn, cfg, epoch, j, n_step, iters, inputs, indexes, idx_max_loss,
                 log_loss, total_loss, epoch_losses, losses, trace, updates,
                 counts, raised, stopped>>

(* inputs, indexes = pool.sample(batch_size); inputs = inputs.to(self.device) *)
CA_Sample ==
  /\ IsCA /\ pc = "sample"
  /\ inputs' = PoolSampleStates
  /\ indexes' = PoolSampleIds
  /\ trace' = <<"sample">>
  /\ drawn' = NoDraw
  /\ updates' = <<>>
  /\ counts' = Count("sample")
  /\ pc' = "zero_grad"
  /\ UNCHANGED <<notTrain, cfg, epoch, j, n_step, iters, idx_max_loss, log_loss,
                 total_loss, epoch_losses, losses, raised, stopped>>

(* optimizer.zero_grad() *)
CA_ZeroGrad ==
  /\ IsCA /\ pc = "zero_grad"
  /\ trace' = Did("zero_grad")
  /\ pc' = "hook"
  /\ UNCHANGED <<notTrain, drawn, cfg, epoch, j, n_step, iters, inputs, indexes, idx_max_loss,
                 log_loss, total_loss, epoch_losses, losses, updates, counts,
                 raised, stopped>>

(* self.update(inputs) *)
CA_Hook ==
  /\ IsCA /\ pc = "hook"
  /\ trace' = Did("hook")
  /\ pc' = "loop_init"
  /\ UNCHANGED <<notTrain, drawn, cfg, epoch, j, n_step, iters, inputs, indexes, idx_max_loss,
                 log_loss, total_loss, epoch_losses, losses, updates, counts,
                 raised, stopped>>

(* total_loss = 0; for n_step in range(evolution_iters) *)
CA_LoopInit ==
  /\ IsCA /\ pc = "loop_init"
  /\ total_loss' = [tensor |-> FALSE, terms |-> 0]
  /\ n_step' = 0
  /\ iters' = cfg.evolution_iters
  /\ pc' = IF cfg.evolution_iters > 0 THEN "forward" ELSE "skip_check"
  /\ UNCHANGED <<notTrain, drawn, cfg, epoch, j, inputs, indexes, idx_max_loss, log_loss,
                 epoch_losses, losses, trace, updates, counts, raised, stopped>>

(* inputs = self.forward(inputs) *)
CA_Forward ==
  /\ IsCA /\ pc = "forward"
  /\ inputs' = [inputs EXCEPT !.steps = @ + 1]
  /\ trace' = Did("forward")
  /\ pc' = "criterion"
  /\ UNCHANGED <<notTrain, drawn, cfg, epoch, j, n_step, iters, indexes, idx_max_loss, log_loss,
                 total_loss, epoch_losses, losses, updates, counts, raised,
                 stopped>>

(* losses = criterion(inputs, n_step, epoch); loss = torch.mean(losses);   *)
(* if n_step == criterion.log_step: log_loss = criterion.log_loss(inputs); *)
(* epoch_losses.append(torch.mean(log_loss).item()); total_loss += loss    *)
CA_Criterion ==
  /\ IsCA /\ pc = "criterion"
  /\ trace' = Did("criterion")
  /\ IF n_step = cfg.log_step
     THEN /\ log_loss' = [what |-> "log_loss", batch |-> ThisBatch, val |-> LossAt(epoch)]
          /\ epoch_losses' = Append(epoch_losses, LossAt(epoch))
     ELSE UNCHANGED <<log_loss, epoch_losses>>
  /\ total_loss' = [tensor |-> TRUE, terms |-> total_loss.terms + 1]
  /\ n_step' = n_step + 1
  /\ pc' = IF n_step + 1 < iters THEN "forward" ELSE "skip_check"
  /\ UNCHANGED <<notTrain, drawn, cfg, epoch, j, iters, inputs, indexes, idx_max_loss, losses,
                 updates, counts, raised, stopped>>

(* if j % skip_update != 0: idx_max_loss = None *)
CA_SkipCheck ==
  /\ IsCA /\ pc = "skip_check"
  /\ idx_max_loss' = IF j % cfg.skip_update # 0 THEN None ELSE idx_max_loss
  /\ pc' = "backward"
  /\ UNCHANGED <<notTrain, drawn, cfg, epoch, j, n_step, iters, inputs, indexes, log_loss,
                 total_loss, epoch_losses, losses, trace, updates, counts,
                 raised, stopped>>

(* total_loss.backward(): total_loss is still the int 0 when the evolution *)
(* loop ran no step, and an int has no backward                            *)
CA_Backward ==
  /\ IsCA /\ pc = "backward"
  /\ IF ~total_loss.tensor
     THEN Raise("AttributeError")
     ELSE /\ trace' = Did("backward")
          /\ pc' = "normalize"
          /\ UNCHANGED <<notTrain, drawn, cfg, epoch, j, n_step, iters, inputs, indexes,
                         idx_max_loss, log_loss, total_loss, epoch_losses,
                         losses, updates, counts, raised, stopped>>

(* if normalize_gradients == True: param.grad.data.div_(norm + 1e-8) *)
CA_Normalize ==
  /\ IsCA /\ pc = "normalize"
  /\ trace' = IF cfg.normalize_gradients THEN Did("normalize") ELSE trace
  /\ pc' = "opt_step"
  /\ UNCHANGED <<notTrain, drawn, cfg, epoch, j, n_step, iters, inputs, indexes, idx_max_loss,
                 log_loss, total_loss, epoch_losses, losses, updates, counts,
                 raised, stopped>>

(* optimizer.step() *)
CA_OptStep ==
  /\ IsCA /\ pc = "opt_step"
  /\ trace' = Did("opt_step")
  /\ counts' = Count("opt_step")
  /\ pc' = "damage"
  /\ UNCHANGED <<notTrain, drawn, cfg, epoch, j, n_step, iters, inputs, indexes, idx_max_loss,
                 log_loss, total_loss, epoch_losses, losses, updates, raised,
                 stopped>>

(* if kind == "regenerating" and j % kwargs["skip_damage"] == 0:           *)
(*     inputs = make_squares(inputs.detach())                              *)
(* kwargs["skip_damage"] is read only when kind is "regenerating"          *)
CA_Damage ==
  /\ IsCA /\ pc = "damage"
  /\ IF cfg.kind = "regenerating" /\ "skip_damage" \notin cfg.kwargs
     THEN Raise("KeyError")
     ELSE /\ IF cfg.kind = "regenerating" /\ j % cfg.skip_damage = 0
             THEN /\ inputs' = MakeSquares(inputs)
                  /\ trace' = Did("damage")
             ELSE UNCHANGED <<inputs, trace>>
          /\ pc' = "writeback"
          /\ UNCHANGED <<notTrain, drawn, cfg, epoch, j, n_step, iters, indexes, idx_max_loss,
                         log_loss, total_loss, epoch_losses, losses, updates,
                         counts, raised, stopped>>

(* if kind != "growing":                                                   *)
(*     idx_max_loss = n_largest_indexes(log_loss, n_max_losses)            *)
(*     pool.update(indexes, inputs, idx_max_loss, evolution_iters)         *)
CA_WriteBack ==
  /\ IsCA /\ pc = "writeback"
  /\ IF cfg.kind = "growing"
     THEN /\ j' = j + 1
          /\ pc' = "batch_head"
          /\ UNCHANGED <<notTrain, drawn, cfg, epoch, n_step, iters, inputs, indexes,
                         idx_max_loss, log_loss, total_loss, epoch_losses,
                         losses, trace, updates, counts, raised, stopped>>
     ELSE IF log_loss = Unbound
     THEN Raise("UnboundLocalError")
     ELSE /\ idx_max_loss' = NLargestIndexes(log_loss)
          /\ updates' = Append(updates,
                 [batch |-> ThisBatch,
                  args |-> <<indexes, inputs, idx_max_loss', cfg.evolution_iters>>])
          /\ trace' = Did("update")
          /\ counts' = Count("update")
          /\ pc' = "reset"
          /\ UNCHANGED <<notTrain, drawn, cfg, epoch, j, n_step, iters, inputs, indexes,
                         log_loss, total_loss, epoch_losses, losses, raised,
                         stopped>>

(* if 'reset_prob' in kwargs:                                              *)
(*     if np.random.uniform() < kwargs['reset_prob']: pool.reset()         *)
CA_Reset ==
  /\ IsCA /\ pc = "reset"
  /\ IF "reset_prob" \in cfg.kwargs
     THEN \E u \in DrawVals :
            /\ drawn' = u
            /\ trace' = IF u < cfg.reset_prob
                         THEN Did("draw") \o <<"reset">> ELSE Did("draw")
            /\ counts' = IF u < cfg.reset_prob
                         THEN [counts EXCEPT !.draw = @ + 1, !.reset = @ + 1]
                         ELSE Count("draw")
     ELSE UNCHANGED <<trace, counts, drawn>>
  /\ j' = j + 1
  /\ pc' = "batch_head"
  /\ UNCHANGED <<notTrain, cfg, epoch, n_step, iters, inputs, indexes, idx_max_loss,
                 log_loss, total_loss, epoch_losses, losses, updates, raised,
                 stopped>>

(* if scheduler is not None: scheduler.step() *)
CA_Sched ==
  /\ IsCA /\ pc = "sched"
  /\ counts' = IF cfg.scheduler THEN Count("sched") ELSE counts
  /\ pc' = "stop_check"
  /\ UNCHANGED <<notTrain, drawn, cfg, epoch, j, n_step, iters, inputs, indexes, idx_max_loss,
                 log_loss, total_loss, epoch_losses, losses, trace, updates,
                 raised, stopped>>

Break ==
  /\ pc' = "done"
  /\ stopped' = TRUE
  /\ UNCHANGED <<notTrain, drawn, cfg, epoch, j, n_step, iters, inputs, indexes, idx_max_loss,
                 log_loss, total_loss, epoch_losses, losses, trace, updates,
                 counts, raised>>

(* if epoch_loss > 0.25 and epoch == 40: break *)
CA_Checkpoint(epoch_loss) ==
  IF Exceeds(epoch_loss, CheckpointLoss) /\ epoch = CheckpointEpoch
  THEN Break
  ELSE /\ pc' = "log"
       /\ UNCHANGED <<notTrain, drawn, cfg, epoch, j, n_step, iters, inputs, indexes,
                      idx_max_loss, log_loss, total_loss, epoch_losses, losses,
                      trace, updates, counts, raised, stopped>>

(* epoch_loss = np.mean(epoch_losses)                                      *)
(* if np.isnan(epoch_loss) or (epoch_loss > 5 and i > 2): break            *)
(* train_CA binds no i (its epoch index is named epoch): i is read as a    *)
(* module global, which this file does not define; its star imports may.   *)
(* Reading it raises NameError, or yields whatever a star import bound.    *)
CA_StopCheck ==
  /\ IsCA /\ pc = "stop_check"
  /\ LET epoch_loss == NpMean(epoch_losses) IN
       IF IsNaN(epoch_loss)
       THEN Break
       ELSE IF Exceeds(epoch_loss, StopLoss)
       THEN \/ Raise("NameError")
            \/ \E i \in {WarmupEpochs, WarmupEpochs + 1} :
                 IF i > WarmupEpochs THEN Break ELSE CA_Checkpoint(epoch_loss)
       ELSE CA_Checkpoint(epoch_loss)

(* self.losses = [epoch_loss] in place of the append *)
CA_LogOverwrite ==
  /\ IsCA /\ pc = "log"
  /\ losses' = <<NpMean(epoch_losses)>>
  /\ counts' = Count("log")
  /\ epoch' = epoch + 1
  /\ pc' = "epoch_head"
  /\ UNCHANGED <<notTrain, drawn, cfg, j, n_step, iters, inputs, indexes, idx_max_loss,
                 log_loss, total_loss, epoch_losses, trace, updates, raised,
                 stopped>>

(* wandb.log({"loss": epoch_loss}); self.losses.append(epoch_loss) *)
CA_Log ==
  /\ IsCA /\ pc = "log"
  /\ losses' = Append(losses, NpMean(epoch_losses))
  /\ counts' = Count("log")
  /\ epoch' = epoch + 1
  /\ pc' = "epoch_head"
  /\ UNCHANGED <<notTrain, drawn, cfg, j, n_step, iters, inputs, indexes, idx_max_loss,
                 log_loss, total_loss, epoch_losses, trace, updates, raised,
                 stopped>>

CA_Next ==
  \/ CA_EpochHead \/ CA_BatchHead \/ CA_Sample \/ CA_ZeroGrad \/ CA_Hook
  \/ CA_LoopInit \/ CA_Forward \/ CA_Criterion \/ CA_SkipCheck \/ CA_Backward
  \/ CA_Normalize \/ CA_OptStep \/ CA_Damage \/ CA_WriteBack \/ CA_Reset
  \/ CA_Sched \/ CA_StopCheck \/ CA_Log

----------------------------------------------------------------------------
(* neural_CA.py, TrainCA.train_CA (the training loop of NeuralCA) *)

IsTC == cfg.impl = "TrainCA"

(* for i in range(n_epochs): epoch_losses = [] *)
TC_EpochHead ==
  /\ IsTC /\ pc = "epoch_head"
  /\ IF epoch < cfg.n_epochs
     THEN /\ epoch_losses' = <<>>
          /\ j' = 0
          /\ pc' = "batch_head"
     ELSE /\ pc' = "done"
          /\ UNCHANGED <<epoch_losses, j>>
  /\ UNCHANGED <<notTrain, drawn, cfg, epoch, n_step, iters, inputs, indexes, idx_max_loss,
                 log_loss, total_loss, losses, trace, updates, counts,
                 raised, stopped>>

(* for j in range(pool.size // batch_size) *)
TC_BatchHead ==
  /\ IsTC /\ pc = "batch_head"
  /\ pc' = IF j < cfg.pool_size \div cfg.batch_size THEN "sample" ELSE "sched"
  /\ UNCHANGED <<notTrain, drawn, cfg, epoch, j, n_step, iters, inputs, indexes, idx_max_loss,
                 log_loss, total_loss, epoch_losses, losses, trace,
                 updates, counts, raised, stopped>>

(* inputs, indexes = pool.sample(batch_size); inputs = inputs.to(self.device) *)
TC_Sample ==
  /\ IsTC /\ pc = "sample"
  /\ inputs' = PoolSampleStates
  /\ indexes' = PoolSampleIds
  /\ trace' = <<"sample">>
  /\ drawn' = NoDraw
  /\ updates' = <<>>
  /\ counts' = Count("sample")
  /\ pc' = "zero_grad"
  /\ UNCHANGED <<notTrain, cfg, epoch, j, n_step, iters, idx_max_loss, log_loss,
                 total_loss, epoch_losses, losses, raised, stopped>>

(* optimizer.zero_grad() *)
TC_ZeroGrad ==
  /\ IsTC /\ pc = "zero_grad"
  /\ trace' = Did("zero_grad")
  /\ pc' = "loop_init"
  /\ UNCHANGED <<notTrain, drawn, cfg, epoch, j, n_step, iters, inputs, indexes, idx_max_loss,
                 log_loss, total_loss, epoch_losses, losses, updates,
                 counts, raised, stopped>>

(* for k in range(randint(lo, hi)) with (lo, hi) = evolution_iters: the length is drawn once *)
TC_LoopInit ==
  /\ IsTC /\ pc = "loop_init"
  /\ \E k \in cfg.iters_min..cfg.evolution_iters :
       /\ iters' = k
       /\ pc' = IF k > 0 THEN "forward" ELSE "criterion"
  /\ n_step' = 0
  /\ UNCHANGED <<notTrain, drawn, cfg, epoch, j, inputs, indexes, idx_max_loss, log_loss,
                 total_loss, epoch_losses, losses, trace, updates,
                 counts, raised, stopped>>

(* inputs = self.forward(inputs) *)
TC_Forward ==
  /\ IsTC /\ pc = "forward"
  /\ inputs' = [inputs EXCEPT !.steps = @ + 1]
  /\ trace' = Did("forward")
  /\ n_step' = n_step + 1
  /\ pc' = IF n_step + 1 < iters THEN "forward" ELSE "criterion"
  /\ UNCHANGED <<notTrain, drawn, cfg, epoch, j, iters, indexes, idx_max_loss, log_loss,
                 total_loss, epoch_losses, losses, updates, counts,
                 raised, stopped>>

(* loss, idx_max_loss = criterion(inputs, n_max_losses);
   epoch_losses.append(loss.item()) *)
TC_Criterion ==
  /\ IsTC /\ pc = "criterion"
  /\ trace' = Did("criterion")
  /\ idx_max_loss' = [what |-> "worst", batch |-> ThisBatch, by |-> "criterion"]
  /\ epoch_losses' = Append(epoch_losses, LossAt(epoch))
  /\ pc' = "skip_check"
  /\ UNCHANGED <<notTrain, drawn, cfg, epoch, j, n_step, iters, inputs, indexes, log_loss,
                 total_loss, losses, updates, counts, raised, stopped>>

(* if j % skip_update != 0: idx_max_loss = None *)
TC_SkipCheck ==
  /\ IsTC /\ pc = "skip_check"
  /\ idx_max_loss' = IF j % cfg.skip_update # 0 THEN None ELSE idx_max_loss
  /\ pc' = "backward"
  /\ UNCHANGED <<notTrain, drawn, cfg, epoch, j, n_step, iters, inputs, indexes, log_loss,
                 total_loss, epoch_losses, losses, trace, updates,
                 counts, raised, stopped>>

(* loss.backward() *)
TC_Backward ==
  /\ IsTC /\ pc = "backward"
  /\ trace' = Did("backward")
  /\ pc' = "opt_step"
  /\ UNCHANGED <<notTrain, drawn, cfg, epoch, j, n_step, iters, inputs, indexes, idx_max_loss,
                 log_loss, total_loss, epoch_losses, losses, updates,
                 counts, raised, stopped>>

(* optimizer.step() *)
TC_OptStep ==
  /\ IsTC /\ pc = "opt_step"
  /\ trace' = Did("opt_step")
  /\ counts' = Count("opt_step")
  /\ pc' = "damage"
  /\ UNCHANGED <<notTrain, drawn, cfg, epoch, j, n_step, iters, inputs, indexes, idx_max_loss,
                 log_loss, total_loss, epoch_losses, losses, updates,
                 raised, stopped>>

(* if kind == "regenerating": inputs = make_squares(inputs.detach(), ...) *)
TC_Damage ==
  /\ IsTC /\ pc = "damage"
  /\ IF cfg.kind = "regenerating"
     THEN /\ inputs' = MakeSquares(inputs)
          /\ trace' = Did("damage")
     ELSE UNCHANGED <<inputs, trace>>
  /\ pc' = "writeback"
  /\ UNCHANGED <<notTrain, drawn, cfg, epoch, j, n_step, iters, indexes, idx_max_loss,
                 log_loss, total_loss, epoch_losses, losses, updates,
                 counts, raised, stopped>>

(* if kind != "growing":                                                   *)
(*     idx_max_loss = [indexes[i] for i in idx_max_loss]                   *)
(*     pool.update(indexes, inputs, idx_max_loss)                          *)
(* iterating None raises TypeError                                         *)
TC_WriteBack ==
  /\ IsTC /\ pc = "writeback"
  /\ IF cfg.kind = "growing"
     THEN /\ j' = j + 1
          /\ pc' = "batch_head"
          /\ UNCHANGED <<notTrain, drawn, cfg, epoch, n_step, iters, inputs, indexes,
                      idx_max_loss, log_loss, total_loss,
                      epoch_losses, losses, trace, updates, counts,
                      raised, stopped>>
     ELSE IF idx_max_loss = None
     THEN Raise("TypeError")
     ELSE /\ idx_max_loss' = [idx_max_loss EXCEPT !.what = "worst_ids"]
          /\ updates' = Append(updates,
                 [batch |-> ThisBatch,
                  args |-> <<indexes, inputs, idx_max_loss'>>])
          /\ trace' = Did("update")
          /\ counts' = Count("update")
          /\ j' = j + 1
          /\ pc' = "batch_head"
          /\ UNCHANGED <<notTrain, drawn, cfg, epoch, n_step, iters, inputs, indexes, log_loss,
                      total_loss, epoch_losses, losses, raised,
                      stopped>>

(* if scheduler is not None: scheduler.step() *)
TC_Sched ==
  /\ IsTC /\ pc = "sched"
  /\ counts' = IF cfg.scheduler THEN Count("sched") ELSE counts
  /\ pc' = "log"
  /\ UNCHANGED <<notTrain, drawn, cfg, epoch, j, n_step, iters, inputs, indexes, idx_max_loss,
                 log_loss, total_loss, epoch_losses, losses, trace,
                 updates, raised, stopped>>

(* self.losses.append(np.mean(epoch_losses)) *)
TC_Log ==
  /\ IsTC /\ pc = "log"
  /\ losses' = Append(losses, NpMean(epoch_losses))
  /\ epoch' = epoch + 1
  /\ pc' = "epoch_head"
  /\ UNCHANGED <<notTrain, drawn, cfg, j, n_step, iters, inputs, indexes, idx_max_loss,
                 log_loss, total_loss, epoch_losses, trace, updates,
                 counts, raised, stopped>>

TC_Next ==
  \/ TC_EpochHead \/ TC_BatchHead \/ TC_Sample \/ TC_ZeroGrad
  \/ TC_LoopInit \/ TC_Forward \/ TC_Criterion \/ TC_SkipCheck
  \/ TC_Backward \/ TC_OptStep \/ TC_Damage \/ TC_WriteBack
  \/ TC_Sched \/ TC_Log

----------------------------------------------------------------------------
(* perturbation_CA.py, PerturbationCA.train_CA *)

IsPC == cfg.impl = "PerturbationCA"

(* for i in range(n_epochs): epoch_losses = [] *)
PC_EpochHead ==
  /\ IsPC /\ pc = "epoch_head"
  /\ IF epoch < cfg.n_epochs
     THEN /\ epoch_losses' = <<>>
          /\ j' = 0
          /\ pc' = "batch_head"
     ELSE /\ pc' = "done"
          /\ UNCHANGED <<epoch_losses, j>>
  /\ UNCHANGED <<notTrain, drawn, cfg, epoch, n_step, iters, inputs, indexes, idx_max_loss,
                 log_loss, total_loss, losses, trace, updates, counts,
                 raised, stopped>>

(* for j in range(pool.size // batch_size) *)
PC_BatchHead ==
  /\ IsPC /\ pc = "batch_head"
  /\ pc' = IF j < cfg.pool_size \div cfg.batch_size THEN "sample" ELSE "sched"
  /\ UNCHANGED <<notTrain, drawn, cfg, epoch, j, n_step, iters, inputs, indexes, idx_max_loss,
                 log_loss, total_loss, epoch_losses, losses, trace,
                 updates, counts, raised, stopped>>

(* inputs, indexes = pool.sample(batch_size); inputs = inputs.to(self.device) *)
PC_Sample ==
  /\ IsPC /\ pc = "sample"
  /\ inputs' = PoolSampleStates
  /\ indexes' = PoolSampleIds
  /\ trace' = <<"sample">>
  /\ drawn' = NoDraw
  /\ updates' = <<>>
  /\ counts' = Count("sample")
  /\ pc' = "zero_grad"
  /\ UNCHANGED <<notTrain, cfg, epoch, j, n_step, iters, idx_max_loss, log_loss,
                 total_loss, epoch_losses, losses, raised, stopped>>

(* optimizer.zero_grad() *)
PC_ZeroGrad ==
  /\ IsPC /\ pc = "zero_grad"
  /\ trace' = Did("zero_grad")
  /\ pc' = "loop_init"
  /\ UNCHANGED <<notTrain, drawn, cfg, epoch, j, n_step, iters, inputs, indexes, idx_max_loss,
                 log_loss, total_loss, epoch_losses, losses, updates,
                 counts, raised, stopped>>

(* for k in range(randint(lo, hi)) with (lo, hi) = evolution_iters: the length is drawn once *)
PC_LoopInit ==
  /\ IsPC /\ pc = "loop_init"
  /\ \E k \in cfg.iters_min..cfg.evolution_iters :
       /\ iters' = k
       /\ pc' = IF k > 0 THEN "forward" ELSE "criterion"
  /\ n_step' = 0
  /\ UNCHANGED <<notTrain, drawn, cfg, epoch, j, inputs, indexes, idx_max_loss, log_loss,
                 total_loss, epoch_losses, losses, trace, updates,
                 counts, raised, stopped>>

(* inputs = self.forward(inputs); criterion.add_mask(self.new_cells)        *)
(* forward starts with self.new_CA.get_living_mask(x), which a NeuralCA    *)
(* does not have                                                           *)
PC_Forward ==
  /\ IsPC /\ pc = "forward"
  /\ IF cfg.new_class = "NeuralCA"
     THEN Raise("AttributeError")
     ELSE /\ inputs' = [inputs EXCEPT !.steps = @ + 1]
          /\ trace' = Did("forward") \o <<"add_mask">>
          /\ n_step' = n_step + 1
          /\ pc' = IF n_step + 1 < iters THEN "forward" ELSE "criterion"
          /\ UNCHANGED <<notTrain, drawn, cfg, epoch, j, iters, indexes, idx_max_loss,
                         log_loss, total_loss, epoch_losses, losses, updates,
                         counts, raised, stopped>>

(* loss, idx_max_loss = criterion(inputs);
   epoch_losses.append(loss.item()) *)
PC_Criterion ==
  /\ IsPC /\ pc = "criterion"
  /\ trace' = Did("criterion")
  /\ idx_max_loss' = [what |-> "worst", batch |-> ThisBatch, by |-> "criterion"]
  /\ epoch_losses' = Append(epoch_losses, LossAt(epoch))
  /\ pc' = "skip_check"
  /\ UNCHANGED <<notTrain, drawn, cfg, epoch, j, n_step, iters, inputs, indexes, log_loss,
                 total_loss, losses, updates, counts, raised, stopped>>

(* if j % skip_update != 0: idx_max_loss = None *)
PC_SkipCheck ==
  /\ IsPC /\ pc = "skip_check"
  /\ idx_max_loss' = IF j % cfg.skip_update # 0 THEN None ELSE idx_max_loss
  /\ pc' = "backward"
  /\ UNCHANGED <<notTrain, drawn, cfg, epoch, j, n_step, iters, inputs, indexes, log_loss,
                 total_loss, epoch_losses, losses, trace, updates,
                 counts, raised, stopped>>

(* loss.backward() *)
PC_Backward ==
  /\ IsPC /\ pc = "backward"
  /\ trace' = Did("backward")
  /\ pc' = "opt_step"
  /\ UNCHANGED <<notTrain, drawn, cfg, epoch, j, n_step, iters, inputs, indexes, idx_max_loss,
                 log_loss, total_loss, epoch_losses, losses, updates,
                 counts, raised, stopped>>

(* optimizer.step() *)
PC_OptStep ==
  /\ IsPC /\ pc = "opt_step"
  /\ trace' = Did("opt_step")
  /\ counts' = Count("opt_step")
  /\ pc' = "damage"
  /\ UNCHANGED <<notTrain, drawn, cfg, epoch, j, n_step, iters, inputs, indexes, idx_max_loss,
                 log_loss, total_loss, epoch_losses, losses, updates,
                 raised, stopped>>

(* if kind == "regenerating": inputs = make_squares(inputs.detach(), ...) *)
PC_Damage ==
  /\ IsPC /\ pc = "damage"
  /\ IF cfg.kind = "regenerating"
     THEN /\ inputs' = MakeSquares(inputs)
          /\ trace' = Did("damage")
     ELSE UNCHANGED <<inputs, trace>>
  /\ pc' = "writeback"
  /\ UNCHANGED <<notTrain, drawn, cfg, epoch, j, n_step, iters, indexes, idx_max_loss,
                 log_loss, total_loss, epoch_losses, losses, updates,
                 counts, raised, stopped>>

(* if kind != "growing": pool.update(inputs, indexes, idx_max_loss) *)
PC_WriteBack ==
  /\ IsPC /\ pc = "writeback"
  /\ IF cfg.kind = "growing"
     THEN /\ j' = j + 1
          /\ pc' = "batch_head"
          /\ UNCHANGED <<notTrain, drawn, cfg, epoch, n_step, iters, inputs, indexes,
                      idx_max_loss, log_loss, total_loss,
                      epoch_losses, losses, trace, updates, counts,
                      raised, stopped>>
     ELSE /\ updates' = Append(updates,
                 [batch |-> ThisBatch,
                  args |-> <<inputs, indexes, idx_max_loss>>])
          /\ trace' = Did("update")
          /\ counts' = Count("update")
          /\ j' = j + 1
          /\ pc' = "batch_head"
          /\ UNCHANGED <<notTrain, drawn, cfg, epoch, n_step, iters, inputs, indexes,
                      idx_max_loss, log_loss, total_loss,
                      epoch_losses, losses, raised, stopped>>

(* if scheduler is not None: scheduler.step() *)
PC_Sched ==
  /\ IsPC /\ pc = "sched"
  /\ counts' = IF cfg.scheduler THEN Count("sched") ELSE counts
  /\ pc' = "log"
  /\ UNCHANGED <<notTrain, drawn, cfg, epoch, j, n_step, iters, inputs, indexes, idx_max_loss,
                 log_loss, total_loss, epoch_losses, losses, trace,
                 updates, raised, stopped>>

(* self.losses.append(np.mean(epoch_losses)) *)
PC_Log ==
  /\ IsPC /\ pc = "log"
  /\ losses' = Append(losses, NpMean(epoch_losses))
  /\ epoch' = epoch + 1
  /\ pc' = "epoch_head"
  /\ UNCHANGED <<notTrain, drawn, cfg, j, n_step, iters, inputs, indexes, idx_max_loss,
                 log_loss, total_loss, epoch_losses, trace, updates,
                 counts, raised, stopped>>

PC_Next ==
  \/ PC_EpochHead \/ PC_BatchHead \/ PC_Sample \/ PC_ZeroGrad
  \/ PC_LoopInit \/ PC_Forward \/ PC_Criterion \/ PC_SkipCheck
  \/ PC_Backward \/ PC_OptStep \/ PC_Damage \/ PC_WriteBack
  \/ PC_Sched \/ PC_Log

----------------------------------------------------------------------------

NextTrain == CA_Next \/ TC_Next \/ PC_Next

----------------------------------------------------------------------------
(* Construction of the composed rule, and save: perturbation_CA.py         *)
(* PerturbationCA.__init__ / save, neural_CA.py NeuralCA.save.             *)

Devices == {"cpu", "cuda:0", "cuda:1"}
Files == {"ca.pt", "old.pt"}
MaxVersion == 2
Versions == 1..MaxVersion

Absent == [exists |-> FALSE, data |-> 0]
Stored(v) == [exists |-> TRUE, data |-> v]
Contents == {Absent} \cup {Stored(v) : v \in Versions}

Unbuilt == [built |-> FALSE]
NoCall == [op |-> "none", fname |-> "", overwrite |-> FALSE, before |-> Absent,
           raised |-> "none"]

RuleStart ==
  /\ base_device \in Devices
  /\ new_device \in Devices
  /\ composed = Unbuilt
  /\ params \in Versions
  /\ fs \in [Files -> Contents]
  /\ call = NoCall

RuleIdle ==
  /\ base_device = "cpu" /\ new_device = "cpu"
  /\ composed = Unbuilt
  /\ params = 1
  /\ fs = [f \in Files |-> Absent]
  /\ call = NoCall

(* os.path.exists(fname) *)
PathExists(fname) == fs[fname].exists

(* torch.save(state_dict, fname) *)
TorchSave(state_dict, fname) == [fs EXCEPT ![fname] = Stored(state_dict)]

(* PerturbationCA.__init__(base_CA, new_CA):                               *)
(*   if base_CA.device != new_CA.device: Exception(...)                    *)
(* the exception is built and dropped, there is no raise statement; then   *)
(*   self.device = base_CA.device; self.old_CA = base_CA;                  *)
(*   self.new_CA = new_CA; self.new_cells = None; self.losses = []         *)
PerturbationCA_init ==
  /\ composed = Unbuilt
  /\ composed' = [built |-> TRUE, device |-> base_device, old_CA |-> "base_CA",
                  new_CA |-> "new_CA", new_cells |-> None, losses |-> <<>>]
  /\ call' = [NoCall EXCEPT !.op = "PerturbationCA.__init__",
                            !.raised = IF base_device # new_device
                                       THEN "none"  \* Exception(...) is not raised
                                       ELSE "none"]
  /\ UNCHANGED <<notRule, base_device, new_device, params, fs>>

(* NeuralCA.save(fname, overwrite):                                        *)
(*   if os.path.exists(fname) and not overwrite: raise Exception(message)  *)
(*   torch.save(self.state_dict(), fname)                                  *)
NeuralCA_save ==
  \E fname \in Files, overwrite \in BOOLEAN :
    /\ IF PathExists(fname) /\ ~overwrite
       THEN /\ call' = [op |-> "NeuralCA.save", fname |-> fname,
                        overwrite |-> overwrite, before |-> fs[fname],
                        raised |-> "Exception"]
            /\ UNCHANGED fs
       ELSE /\ fs' = TorchSave(params, fname)
            /\ call' = [op |-> "NeuralCA.save", fname |-> fname,
                        overwrite |-> overwrite, before |-> fs[fname],
                        raised |-> "none"]
    /\ UNCHANGED <<notRule, base_device, new_device, composed, params>>

(* PerturbationCA.save(fname, overwrite): the same text as NeuralCA.save;  *)
(* PerturbationCA is a plain class (no nn.Module base) and defines no      *)
(* state_dict, so evaluating self.state_dict() raises AttributeError       *)
(* before torch.save is called                                             *)
PerturbationCA_save ==
  \E fname \in Files, overwrite \in BOOLEAN :
    /\ composed # Unbuilt
    /\ call' = [op |-> "PerturbationCA.save", fname |-> fname,
                overwrite |-> overwrite, before |-> fs[fname],
                raised |-> IF PathExists(fname) /\ ~overwrite
                           THEN "Exception" ELSE "AttributeError"]
    /\ UNCHANGED <<notRule, base_device, new_device, composed, params, fs>>

NextRule == PerturbationCA_init \/ NeuralCA_save \/ PerturbationCA_save

----------------------------------------------------------------------------
(* One update step: neural_CA.py NeuralCA.compute_dx / forward.            *)
(* A grid is a row of GridWidth cells; a cell holds its alpha channel      *)
(* (channel 3) and one of its other channels, c.  Values are in tenths:    *)
(* the alive threshold 0.1 is 1.                                           *)

GridWidth == 3
AliveThreshold == 1

Cells == 1..GridWidth
AlphaVals == {0, 2}
OtherVals == {0, 1}
Grids == [Cells -> [a : AlphaVals, c : OtherVals]]
(* what the learned layers may propose for a cell, times step_size *)
Deltas == {[a |-> 0, c |-> 0], [a |-> 2, c |-> 1], [a |-> -2, c |-> -1]}

ZeroGrid == [i \in Cells |-> [a |-> 0, c |-> 0]]
NoGrid == [i \in {} |-> 0]

Neighbourhood(i) == {k \in Cells : k >= i - 1 /\ k <= i + 1}

(* get_living_mask(x): 3x3 max-pool of the alpha channel above 0.1 *)
GetLivingMask(x) ==
  [i \in Cells |-> \E k \in Neighbourhood(i) : x[k].a > AliveThreshold]

(* x + dx, x * mask.float() *)
Plus(x, dx) == [i \in Cells |-> [a |-> x[i].a + dx[i].a, c |-> x[i].c + dx[i].c]]
Times(x, m) == [i \in Cells |-> IF m[i] THEN x[i] ELSE [a |-> 0, c |-> 0]]

(* compute_dx: dx = self.layers(self.perceive(x, angle)) * step_size;       *)
(* update_mask = torch.rand(...) < self.fire_rate (one draw per cell);      *)
(* return dx * update_mask.float()                                          *)
ComputeDx(layers_out, update_mask) == Times(layers_out, update_mask)

(* life_mask = pre_life_mask & post_life_mask *)
LifeMaskOr(pre, post) == [i \in Cells |-> pre[i] \/ post[i]]
LifeMask(pre, post) == [i \in Cells |-> pre[i] /\ post[i]]

StepStart ==
  /\ f_pc = "call"
  /\ f_in \in Grids
  /\ f_x = f_in
  /\ f_dx = NoGrid
  /\ f_ret = NoGrid

StepIdle ==
  /\ f_pc = "idle"
  /\ f_in = ZeroGrid
  /\ f_x = ZeroGrid
  /\ f_dx = NoGrid
  /\ f_ret = NoGrid

(* NeuralCA.forward(x):                                                    *)
(*   pre_life_mask = get_living_mask(x, 4)                                 *)
(*   x += self.compute_dx(x, angle, step_size)                             *)
(*   post_life_mask = get_living_mask(x, 4)                                *)
(*   life_mask = pre_life_mask & post_life_mask                            *)
(*   return x * life_mask.float()                                          *)
NeuralCA_forward ==
  /\ f_pc = "call"
  /\ \E layers_out \in [Cells -> Deltas], update_mask \in [Cells -> BOOLEAN] :
       LET pre_life_mask == GetLivingMask(f_x)
           dx == ComputeDx(layers_out, update_mask)
           x == Plus(f_x, dx)
           post_life_mask == GetLivingMask(x)
           life_mask == LifeMask(pre_life_mask, post_life_mask)
       IN /\ f_dx' = dx
          /\ f_x' = x
          /\ f_ret' = Times(x, life_mask)
  /\ f_pc' = "returned"
  /\ UNCHANGED <<notStep, f_in>>

NextStep == NeuralCA_forward

(* what NeuralCA.forward returns for the state x when compute_dx yields dx *)
Forward(x, dx) ==
  LET pre_life_mask == GetLivingMask(x)
      post_life_mask == GetLivingMask(Plus(x, dx))
  IN Times(Plus(x, dx), LifeMask(pre_life_mask, post_life_mask))

----------------------------------------------------------------------------
(* One update step of the composed rule: perturbation_CA.py                *)
(* PerturbationCA.forward.  new_CA is either a NeuralCA of neural_CA.py,   *)
(* a class that defines no get_living_mask method (forward there calls the *)
(* function of utils), or a rule of a class that has the method.           *)

ZeroDelta == [a |-> 0, c |-> 0]
(* what a rule's layers propose where the rule is not the zero rule *)
LayerOutputs == [Cells -> Deltas \ {ZeroDelta}]
ZeroOutput == [i \in Cells |-> ZeroDelta]

ComposedStart ==
  /\ p_args \in [new_class : RuleClasses, new_zeroed : BOOLEAN]
  /\ p_pc = "pre_life_mask"
  /\ p_in \in Grids
  /\ p_x = p_in
  /\ p_pre = NoGrid /\ p_dx_new = NoGrid /\ p_dx_old = NoGrid /\ p_ret = NoGrid
  /\ new_cells = NoGrid       \* self.new_cells = None
  /\ p_raised = "none"

ComposedIdle ==
  /\ p_args = [new_class |-> "masked", new_zeroed |-> FALSE]
  /\ p_pc = "idle"
  /\ p_in = ZeroGrid
  /\ p_x = ZeroGrid
  /\ p_pre = NoGrid /\ p_dx_new = NoGrid /\ p_dx_old = NoGrid /\ p_ret = NoGrid
  /\ new_cells = NoGrid
  /\ p_raised = "none"

(* pre_life_mask = self.new_CA.get_living_mask(x) *)
PerturbationCA_forward_pre ==
  /\ p_pc = "pre_life_mask"
  /\ IF p_args.new_class = "NeuralCA"
     THEN /\ p_pc' = "raised"
          /\ p_raised' = "AttributeError"
          /\ UNCHANGED p_pre
     ELSE /\ p_pre' = GetLivingMask(p_x)
          /\ p_pc' = "dx_new"
          /\ UNCHANGED p_raised
  /\ UNCHANGED <<notComposed, p_args, p_in, p_x, p_dx_new, p_dx_old, p_ret, new_cells>>

(* dx_new = self.new_CA.compute_dx(x, angle, step_size) *)
PerturbationCA_forward_new ==
  /\ p_pc = "dx_new"
  /\ \E layers_out \in (IF p_args.new_zeroed THEN {ZeroOutput} ELSE LayerOutputs),
        update_mask \in [Cells -> BOOLEAN] :
       p_dx_new' = ComputeDx(layers_out, update_mask)
  /\ p_pc' = "dx_old"
  /\ UNCHANGED <<notComposed, p_args, p_in, p_x, p_pre, p_dx_old, p_ret, new_cells,
                 p_raised>>

(* dx_old = self.old_CA.compute_dx(x, angle, step_size) *)
PerturbationCA_forward_old ==
  /\ p_pc = "dx_old"
  /\ \E layers_out \in LayerOutputs, update_mask \in [Cells -> BOOLEAN] :
       p_dx_old' = ComputeDx(layers_out, update_mask)
  /\ p_pc' = "apply"
  /\ UNCHANGED <<notComposed, p_args, p_in, p_x, p_pre, p_dx_new, p_ret, new_cells,
                 p_raised>>

(* x += dx_new + dx_old                                                    *)
(* post_life_mask = self.new_CA.get_living_mask(x)                         *)
(* life_mask = pre_life_mask & post_life_mask                              *)
(* self.new_cells = dx_new * life_mask.float()                             *)
(* return x * life_mask.float()                                            *)
PerturbationCA_forward_apply ==
  /\ p_pc = "apply"
  /\ LET x == Plus(p_x, Plus(p_dx_new, p_dx_old))
         post_life_mask == GetLivingMask(x)
         life_mask == LifeMask(p_pre, post_life_mask)
     IN /\ p_x' = x
        /\ new_cells' = Times(p_dx_new, life_mask)
        /\ p_ret' = Times(x, life_mask)
  /\ p_pc' = "returned"
  /\ UNCHANGED <<notComposed, p_args, p_in, p_pre, p_dx_new, p_dx_old, p_raised>>

NextComposed ==
  \/ PerturbationCA_forward_pre \/ PerturbationCA_forward_new
  \/ PerturbationCA_forward_old \/ PerturbationCA_forward_apply

----------------------------------------------------------------------------
(* evolve: models/CAModel.py CAModel.evolve (with the update step of       *)
(* NeuralCA) and perturbation_CA.py PerturbationCA.evolve.                 *)

MaxEvolveIters == 2

(* the grids an evolution starts from: seeds on any subset of the cells *)
EvolveGrids == {x \in Grids : \A i \in Cells : x[i].c = IF x[i].a > 0 THEN 1 ELSE 0}

EvolveStart ==
  /\ e_args \in [impl : {"CAModel", "PerturbationCA"}, iters : 0..MaxEvolveIters,
                 layers : Deltas]
  /\ e_pc = "eval"
  /\ e_in \in EvolveGrids
  /\ e_x = e_in
  /\ e_i = 0
  /\ e_hist = <<>> /\ e_calls = <<>>
  /\ e_ret = NoGrid
  /\ e_raised = "none"

EvolveIdle ==
  /\ e_args = [impl |-> "CAModel", iters |-> 0, layers |-> ZeroDelta]
  /\ e_pc = "idle"
  /\ e_in = ZeroGrid
  /\ e_x = ZeroGrid
  /\ e_i = 0
  /\ e_hist = <<>> /\ e_calls = <<>>
  /\ e_ret = NoGrid
  /\ e_raised = "none"

(* self.eval(): CAModel is an nn.Module; PerturbationCA is a plain class    *)
(* that defines no eval                                                     *)
Evolve_Eval ==
  /\ e_pc = "eval"
  /\ IF e_args.impl = "PerturbationCA"
     THEN /\ e_pc' = "raised"
          /\ e_raised' = "AttributeError"
          /\ UNCHANGED e_calls
     ELSE /\ e_calls' = Append(e_calls, "eval")
          /\ e_pc' = "loop"
          /\ UNCHANGED e_raised
  /\ UNCHANGED <<notEvolve, e_args, e_in, e_x, e_i, e_hist, e_ret>>

(* for i in range(iters): x = self.forward(x, angle=angle, step_size=step_size) *)
Evolve_Step ==
  /\ e_pc = "loop"
  /\ e_i < e_args.iters
  /\ \E update_mask \in [Cells -> BOOLEAN] :
       LET dx == ComputeDx([i \in Cells |-> e_args.layers], update_mask)
       IN /\ e_x' = Forward(e_x, dx)
          /\ e_hist' = Append(e_hist, dx)
  /\ e_calls' = Append(e_calls, "forward")
  /\ e_i' = e_i + 1
  /\ UNCHANGED <<notEvolve, e_args, e_pc, e_in, e_ret, e_raised>>

(* return x *)
Evolve_Return ==
  /\ e_pc = "loop"
  /\ e_i >= e_args.iters
  /\ e_ret' = e_x
  /\ e_pc' = "returned"
  /\ UNCHANGED <<notEvolve, e_args, e_in, e_x, e_i, e_hist, e_calls, e_raised>>

NextEvolve == Evolve_Eval \/ Evolve_Step \/ Evolve_Return

----------------------------------------------------------------------------
(* models/CAModel.py, CAModel.test_CA.  A running mean is kept as the      *)
(* fraction the code's formula yields in exact arithmetic.                 *)

MaxImages == 4
MaxTestBatch == 2
MaxTestIters == 2
TestLosses == {1, 3}      \* what criterion may report for a batch

Frac(n, d) == [num |-> n, den |-> d]

TestStart ==
  /\ t_args \in [eval_samples : 0..MaxImages, batch_size : 1..MaxTestBatch,
                 evolution_iters : 0..MaxTestIters]
  /\ t_pc = "batch_head"
  /\ t_i = 0 /\ t_j = 0 /\ t_n = 0
  \* evolution_losses = torch.zeros((evolution_iters))
  /\ evolution_losses = [k \in 1..t_args.evolution_iters |-> Frac(0, 1)]
  /\ t_sum = [k \in 1..t_args.evolution_iters |-> 0]
  /\ t_images = 0

TestIdle ==
  /\ t_args = [eval_samples |-> 0, batch_size |-> 1, evolution_iters |-> 0]
  /\ t_pc = "idle"
  /\ t_i = 0 /\ t_j = 0 /\ t_n = 0
  /\ evolution_losses = <<>>
  /\ t_sum = <<>>
  /\ t_images = 0

(* images[i:i+batch_size]: the number of images in the slice *)
SliceLen(i) ==
  IF i + t_args.batch_size <= t_args.eval_samples
  THEN t_args.batch_size
  ELSE t_args.eval_samples - i

(* (n*evolution_losses[j] + batch_size*loss) / (n + batch_size) *)
RunningMean(n, old, batch_size, loss) ==
  Frac(n * old.num + batch_size * loss * old.den, old.den * (n + batch_size))

(* for i in range(0, eval_samples, batch_size):                            *)
(*     inputs = images[i:i+batch_size].to(self.device)                     *)
Test_BatchHead ==
  /\ t_pc = "batch_head"
  /\ IF t_i < t_args.eval_samples
     THEN /\ t_j' = 0
          /\ t_pc' = IF t_args.evolution_iters > 0 THEN "step" ELSE "batch_end"
     ELSE /\ t_pc' = "returned"
          /\ UNCHANGED t_j
  /\ UNCHANGED <<notTest, t_args, t_i, t_n, evolution_losses, t_sum, t_images>>

(* for j in range(evolution_iters):                                        *)
(*     inputs = self.forward(inputs)                                       *)
(*     loss, _ = criterion(inputs, n_max_losses=0)                         *)
(*     evolution_losses[j] = (n*evolution_losses[j] +                      *)
(*                            batch_size*loss.cpu()) / (n+batch_size)      *)
Test_Step ==
  /\ t_pc = "step"
  /\ \E loss \in TestLosses :
       /\ evolution_losses' =
            [evolution_losses EXCEPT ![t_j + 1] =
               RunningMean(t_n, @, t_args.batch_size, loss)]
       /\ t_sum' = [t_sum EXCEPT ![t_j + 1] = @ + SliceLen(t_i) * loss]
  /\ t_j' = t_j + 1
  /\ t_pc' = IF t_j + 1 < t_args.evolution_iters THEN "step" ELSE "batch_end"
  /\ UNCHANGED <<notTest, t_args, t_i, t_n, t_images>>

(* n += batch_size, and the next i of range(0, eval_samples, batch_size) *)
Test_BatchEnd ==
  /\ t_pc = "batch_end"
  /\ t_n' = t_n + t_args.batch_size
  /\ t_images' = t_images + SliceLen(t_i)
  /\ t_i' = t_i + t_args.batch_size
  /\ t_pc' = "batch_head"
  /\ UNCHANGED <<notTest, t_args, t_j, evolution_losses, t_sum>>

NextTest == Test_BatchHead \/ Test_Step \/ Test_BatchEnd

----------------------------------------------------------------------------
(* Specifications *)

OthersIdle == ComposedIdle /\ EvolveIdle

InitTrain == TrainStart(Cfgs, "epoch_head") /\ RuleIdle /\ StepIdle /\ TestIdle /\ OthersIdle
InitRule == TrainIdle /\ RuleStart /\ StepIdle /\ TestIdle /\ OthersIdle
InitStep == TrainIdle /\ RuleIdle /\ StepStart /\ TestIdle /\ OthersIdle
InitTest == TrainIdle /\ RuleIdle /\ StepIdle /\ TestStart /\ OthersIdle
InitComposed ==
  TrainIdle /\ RuleIdle /\ StepIdle /\ TestIdle /\ ComposedStart /\ EvolveIdle
InitEvolve ==
  TrainIdle /\ RuleIdle /\ StepIdle /\ TestIdle /\ ComposedIdle /\ EvolveStart

SpecComposed == InitComposed /\ [][NextComposed]_vars
SpecEvolve == InitEvolve /\ [][NextEvolve]_vars
SpecTrain == InitTrain /\ [][NextTrain]_vars
SpecRule == InitRule /\ [][NextRule]_vars
SpecStep == InitStep /\ [][NextStep]_vars
SpecTest == InitTest /\ [][NextTest]_vars

----------------------------------------------------------------------------
(* Claims about the training loops (SpecTrain) *)

KnownKinds == {"growing", "persistent", "regenerating"}

(* the batch body has been left: by its last statement or by an exception *)
BatchOver == pc \in {"batch_head", "sched", "stop_check", "log", "epoch_head",
                     "done", "raised"}

Occurs(op) == \E k \in 1..Len(trace) : trace[k] = op

(* C1: a pool.update call of a batch with j % skip_update # 0 receives no  *)
(* worst-sample indices (its replace argument is None); worst indices are  *)
(* passed only on batches with j % skip_update = 0.                        *)
C1_SkipUpdateSuppressesWorst ==
  \A k \in 1..Len(updates) :
    updates[k].batch[2] % cfg.skip_update # 0 => updates[k].args[3] = None

(* C2: for kind "growing" pool.update is never called; for every other     *)
(* kind it is called exactly once per processed batch (a batch whose       *)
(* optimizer step was taken), after the optimizer step of that batch.      *)
C2_UpdateOncePerBatch ==
  /\ cfg.kind = "growing" => counts.update = 0
  /\ cfg.kind # "growing" =>
       /\ Len(updates) <= 1
       /\ \A k \in 1..Len(trace) :
            trace[k] = "update" => \E m \in 1..(k - 1) : trace[m] = "opt_step"
       /\ (BatchOver /\ Occurs("opt_step")) => Len(updates) = 1

(* C3: every pool.update call passes, first, the identifiers the           *)
(* pool.sample call of the same batch returned and, second, the batch of   *)
(* states evolved from the states of that same sample call.                *)
C3_UpdateArgsMatchSample ==
  \A k \in 1..Len(updates) :
    LET u == updates[k] IN
      /\ u.args[1] = [what |-> "ids", batch |-> u.batch]
      /\ u.args[2].what = "states"
      /\ u.args[2].batch = u.batch
      /\ u.args[2].steps = iters

(* C4: when, at the end of an epoch, the mean of the epoch's log-step      *)
(* losses is NaN, or exceeds 5 after the warm-up epochs, the run leaves    *)
(* the epoch loop normally: no exception, no entry of self.losses changed, *)
(* and no batch is processed afterwards.                                   *)
StopCondition ==
  /\ pc = "stop_check"
  /\ LET epoch_loss == NpMean(epoch_losses) IN
       \/ IsNaN(epoch_loss)
       \/ Exceeds(epoch_loss, StopLoss) /\ epoch > WarmupEpochs

C4_EarlyStopIsGraceful ==
  [][/\ StopCondition =>
          pc' = "done" /\ raised' = "none" /\ losses' = losses /\ counts' = counts
     /\ stopped => losses' = losses /\ counts' = counts]_vars

(* C9: train_CA never fails because an option is missing: called with no   *)
(* scheduler and no damage options in kwargs, no lookup of a missing       *)
(* option ends the run, whatever the kind.                                 *)
C9_MissingOptionsNeverFail ==
  (~cfg.scheduler /\ cfg.kwargs = {}) => raised # "KeyError"

(* C10: a kind other than growing, persistent, regenerating is rejected    *)
(* before any batch is sampled, any optimizer step, any pool.update or     *)
(* pool.reset.                                                             *)
C10_UnknownKindFailsFast ==
  cfg.kind \notin KnownKinds =>
    /\ counts.sample = 0 /\ counts.opt_step = 0
    /\ counts.update = 0 /\ counts.reset = 0

(* C11: whenever reset_prob is supplied, a uniform(0,1) value is drawn on  *)
(* every processed batch, whatever the kind, and pool.reset() is called on *)
(* that batch exactly when the drawn value is below reset_prob; when       *)
(* reset_prob is not supplied pool.reset() is never called.                *)
C11_ResetDrawnEveryBatch ==
  IsCA =>
    /\ "reset_prob" \notin cfg.kwargs => counts.reset = 0
    /\ ("reset_prob" \in cfg.kwargs /\ BatchOver /\ Occurs("opt_step")) =>
         /\ drawn # NoDraw
         /\ Cardinality({k \in 1..Len(trace) : trace[k] = "draw"}) = 1
         /\ Occurs("reset") <=> drawn < cfg.reset_prob


(* C14: in every epoch that is entered exactly pool.size // batch_size     *)
(* batches are processed, one pool.sample and one optimizer step each (the *)
(* remainder is dropped, and no batch is processed when pool.size is below *)
(* batch_size).                                                            *)
BatchesPerEpoch == cfg.pool_size \div cfg.batch_size

(* the epochs entered and left so far *)
EpochsLeft ==
  IF pc \in {"sched", "stop_check", "log", "raised"} \/ (pc = "done" /\ stopped)
  THEN epoch + 1 ELSE epoch

C14_BatchesPerEpochExact ==
  (IsCA /\ pc \in {"sched", "stop_check", "log", "raised", "done", "epoch_head"}) =>
    /\ counts.sample = EpochsLeft * BatchesPerEpoch
    /\ counts.opt_step = EpochsLeft * BatchesPerEpoch

(* C15: within every batch the phases occur in this order and              *)
(* multiplicity: pool.sample, zero gradients, the hook update(inputs),     *)
(* evolution_iters forward steps each followed by one criterion call, one  *)
(* backward pass over the summed per-step losses, gradient normalization   *)
(* (only when enabled), one optimizer step, damage (only for regenerating  *)
(* on batches with j % skip_damage = 0), then the pool write-back of the   *)
(* damaged states.                                                         *)
IsPhase(op) == op \notin {"draw", "reset"}

Damaging(jb) == cfg.kind = "regenerating" /\ jb % cfg.skip_damage = 0

ExpectedPhases(jb) ==
  <<"sample", "zero_grad", "hook">>
  \o [k \in 1..(2 * cfg.evolution_iters) |->
        IF k % 2 = 1 THEN "forward" ELSE "criterion"]
  \o <<"backward">>
  \o (IF cfg.normalize_gradients THEN <<"normalize">> ELSE <<>>)
  \o <<"opt_step">>
  \o (IF Damaging(jb) THEN <<"damage">> ELSE <<>>)
  \o (IF cfg.kind # "growing" THEN <<"update">> ELSE <<>>)

C15_PhaseOrder ==
  (IsCA /\ BatchOver /\ trace # <<>>) =>
    LET jb == inputs.batch[2] IN
      /\ SelectSeq(trace, IsPhase) = ExpectedPhases(jb)
      /\ total_loss.terms = cfg.evolution_iters
      /\ \A k \in 1..Len(updates) :
           /\ updates[k].args[2] = inputs
           /\ updates[k].args[2].damaged = Damaging(jb)

(* C16: self.losses is append-only during train_CA: its length never       *)
(* decreases and its entries never change; it gains exactly one entry, the *)
(* epoch's mean log-step loss, at the end of each epoch in which no        *)
(* stopping condition fires and none for the epoch that stops the run, so  *)
(* it has grown by the number of epochs completed without stopping, at     *)
(* most n_epochs.                                                          *)
PriorEntries == IF cfg.prior THEN 1 ELSE 0

C18_LogLossFromSameBatch ==
  (IsCA /\ cfg.kind # "growing") =>
    /\ pc = "writeback" => (log_loss # Unbound /\ log_loss.batch = ThisBatch)
    /\ \A k \in 1..Len(updates) : updates[k].args[3].batch = updates[k].batch
    /\ raised # "UnboundLocalError"
    /\ pc \in {"batch_head", "sched"} => Len(epoch_losses) = j


----------------------------------------------------------------------------
(* Claims about construction and save (SpecRule) *)

(* C5: constructing a PerturbationCA from two rules whose devices differ   *)
(* raises and produces no composed rule.                                   *)
C5_DeviceMismatchFails ==
  base_device # new_device =>
    /\ composed = Unbuilt
    /\ call.op = "PerturbationCA.__init__" => call.raised # "none"

(* C6: save(fname, overwrite) of a single or a composed rule: if a file    *)
(* exists at fname and overwrite is false it raises and the stored content *)
(* is unchanged; otherwise the content stored at fname after the call is   *)
(* the rule's current parameters.                                          *)
C6_SavePolicy ==
  call.op \in {"NeuralCA.save", "PerturbationCA.save"} =>
    IF call.before.exists /\ ~call.overwrite
    THEN call.raised = "Exception" /\ fs[call.fname] = call.before
    ELSE call.raised = "none" /\ fs[call.fname] = Stored(params)

----------------------------------------------------------------------------
(* Claims about the update step (SpecStep) *)

AllAlphaZero(x) == \A i \in Cells : x[i].a = 0
NowhereAlive(x) == \A i \in Cells : ~GetLivingMask(x)[i]

(* C7, as stated: for a grid whose alpha channel is zero in every cell,    *)
(* the alive mask is false everywhere and forward returns a grid equal to  *)
(* the input grid in every channel of every cell.                          *)
C7_DeadGridUnchanged ==
  (f_pc = "returned" /\ AllAlphaZero(f_in)) =>
    NowhereAlive(f_in) /\ f_ret = f_in

(* C7, amended: for a grid whose alpha channel is zero in every cell, the  *)
(* alive mask is false everywhere and forward returns the grid that is     *)
(* zero in every channel of every cell.                                    *)
C7_DeadGridZeroed ==
  (f_pc = "returned" /\ AllAlphaZero(f_in)) =>
    NowhereAlive(f_in) /\ f_ret = ZeroGrid

(* a dead grid with a non-zero other channel went through a step whose     *)
(* update raised some cell's alpha                                         *)
C7_Witness ==
  /\ f_pc = "returned"
  /\ AllAlphaZero(f_in)
  /\ \E i \in Cells : f_in[i].c # 0
  /\ \E i \in Cells : f_dx[i].a > AliveThreshold

----------------------------------------------------------------------------
(* Claims about the composed update step (SpecComposed) *)

(* C12: composed-rule identity: for every grid x, when the new rule's      *)
(* delta is zero everywhere (its weights zeroed) and the base rule fires   *)
(* the same cells, PerturbationCA.forward(x) returns the grid the base     *)
(* rule's own forward(x) returns, and the recorded new_cells is zero       *)
(* everywhere.                                                             *)
C12_ComposedIdentity ==
  p_args.new_zeroed =>
    /\ p_pc # "raised"
    /\ p_pc = "returned" =>
         /\ p_ret = Forward(p_in, p_dx_old)
         /\ new_cells = ZeroGrid

(* the gate of one update step: a cell not alive before the additive       *)
(* update or not alive after it holds zero in all channels, a cell alive   *)
(* both before and after holds state + delta                               *)
Gated(state, delta, next) ==
  LET before == GetLivingMask(state)
      after == GetLivingMask(Plus(state, delta))
  IN \A i \in Cells :
       next[i] = IF before[i] /\ after[i] THEN Plus(state, delta)[i] ELSE ZeroDelta

(* C17: after every update step, of the single rule or of the composed     *)
(* rule, every cell that was not alive before the additive update or is    *)
(* not alive after it holds zero in all channels and every cell alive both *)
(* before and after holds state + delta; in the composed rule one shared   *)
(* gate is applied to the sum of both rules' deltas, both computed from    *)
(* the same pre-step state.                                                *)
C17_AliveGating ==
  /\ f_pc = "returned" => Gated(f_in, f_dx, f_ret)
  /\ p_pc # "raised"
  /\ p_pc = "returned" => Gated(p_in, Plus(p_dx_new, p_dx_old), p_ret)

----------------------------------------------------------------------------
(* Claims about evolve (SpecEvolve) *)

RECURSIVE Iterate(_, _)
Iterate(x, dxs) ==
  IF dxs = <<>> THEN x ELSE Iterate(Forward(x, Head(dxs)), Tail(dxs))

(* C13: evolve(x, iters) applies the update step exactly iters times in    *)
(* sequence, each step to the result of the previous one, touches no       *)
(* sample pool, and returns the last result; for iters = 0 it returns a    *)
(* grid identical to x.                                                    *)
C13_EvolveIterates ==
  /\ e_pc # "raised"
  /\ e_pc = "returned" =>
       /\ Len(e_hist) = e_args.iters
       /\ e_ret = Iterate(e_in, e_hist)
       /\ e_args.iters = 0 => e_ret = e_in
       /\ \A k \in 1..Len(e_calls) : e_calls[k] \in {"eval", "forward"}

----------------------------------------------------------------------------
(* Claims about test_CA (SpecTest) *)

(* C8: test_CA returns evolution_iters entries; entry j is the mean of the *)
(* batch losses after step j+1, each batch weighted by the number of       *)
(* images it contains, for every image count and batch size.               *)
C8_WeightedMean ==
  t_pc = "returned" =>
    /\ Len(evolution_losses) = t_args.evolution_iters
    /\ t_images > 0 =>
         \A k \in 1..Len(evolution_losses) :
           evolution_losses[k].num * t_images = t_sum[k] * evolution_losses[k].den

====
